---- MODULE Spec2Model ----
(***************************************************************************)
(* Model of src/list.py: the Discord event analyzer.                       *)
(*                                                                         *)
(*   analyze_file          one pass over the lines of the export           *)
(*   pair_call_events      call start/end events -> call sessions          *)
(*   main                  sorts the sessions, exports them, prints the    *)
(*                         most frequent event types                       *)
(*   export_call_sessions  the CSV rows and the JSON objects               *)
(*   export_event_counts   the event types by descending count             *)
(*                                                                         *)
(* Three specifications run main from its start on three families of input  *)
(* files: SpecAnalyze (lines of every kind, up to the return of             *)
(* analyze_file), SpecCalls (call events, up to the export of the sessions) *)
(* and SpecCounts (lines that are only counted, up to the statistics).      *)
(* An exception that nothing catches ends the run with pc naming it.        *)
(*                                                                         *)
(* Time is counted in ticks, TicksPerSec ticks to the second, so that      *)
(* sub-second timestamps and fractional durations exist.  A float number   *)
(* of seconds is the number of ticks it holds (fixed point).  A datetime   *)
(* is [t |-> ticks since the epoch, aware |-> has a UTC offset].           *)
(***************************************************************************)
EXTENDS Integers, Sequences, FiniteSets, TLC

\* ---------------------------------------------------------------- bounds
MaxTick       == 3   \* timestamps are 0..MaxTick ticks
TicksPerSec   == 2   \* resolution of a timestamp
MaxLines      == 4   \* longest file of SpecAnalyze (lines of every kind)
MaxCallLines  == 4   \* longest file of SpecCalls (lines of call events)
MaxCountLines == 5   \* longest file of SpecCounts (lines that are only counted)

\* --------------------------------------------------- event configuration
CALL_START_EVENTS  == {"join_call", "start_call", "voice_connection_success"}
CALL_END_EVENTS    == {"voice_disconnect"}
STREAM_START_EVENT == "video_stream_started"
MESSAGE_EVENT      == "send_message"

\* Python's None, for values that are strings otherwise.
None == "<None>"
\* A key that the JSON object does not have, for integer values.
NoInt == -1

\* Python truthiness of a str-or-None value: None and "" are falsy.
Truthy(v) == v # None /\ v # ""

\* a or b
Or(a, b) == IF Truthy(a) THEN a ELSE b

VARIABLES
    pc,               \* position in main / analyze_file / pair_call_events
    lines,            \* analyze_file: the lines of the file read so far
    counters,         \* analyze_file: Counter, <<type, count>> in insertion order
    call_events,      \* analyze_file: list of <<event_type, dt, ctx>>
    messages,         \* analyze_file: list of message dicts
    data,             \* the dict analyze_file returns
    events,           \* pair_call_events: its argument
    queue,            \* pair_call_events: sorted(events) not yet iterated
    stack,            \* pair_call_events: open starts, <<ts, context>>, top last
    sessions,         \* pair_call_events: sessions emitted so far
    seen,             \* pair_call_events: history, the events iterated over so far
    sessions_sorted,  \* main: sessions by start descending
    csv_rows,         \* export_call_sessions: rows of discord_calls.csv
    json_objs,        \* export_call_sessions: objects of discord_calls.json
    top,              \* main: event_counts.most_common(10)
    counts_file,      \* export_event_counts: lines of event_type_counts.txt
    stream_count,     \* main: event_counts.get(STREAM_START_EVENT, 0)
    messages_log      \* export_messages_log: lines of sent_messages.txt

vars == <<pc, lines, counters, call_events, messages, data, events, queue, stack,
          sessions, seen, sessions_sorted, csv_rows, json_objs, top, counts_file,
          stream_count, messages_log>>

analyzeVars == <<lines, counters, call_events, messages, data>>
pairVars    == <<events, queue, stack, sessions, seen>>
exportVars  == <<sessions_sorted, csv_rows, json_objs>>
topVars     == <<top, counts_file, stream_count, messages_log>>

\* ------------------------------------------------------------- sequences
RECURSIVE SeqSum(_)
SeqSum(s) == IF s = <<>> THEN 0 ELSE Head(s) + SeqSum(Tail(s))

Range(s) == {s[i] : i \in 1..Len(s)}

\* Insert index i into perm, a list of indices into keys sorted by key: after
\* every index whose key is not greater than keys[i].
RECURSIVE InsertStable(_, _, _)
InsertStable(perm, i, keys) ==
    IF perm = <<>> THEN <<i>>
    ELSE IF keys[i] < keys[Head(perm)] THEN <<i>> \o perm
    ELSE <<Head(perm)>> \o InsertStable(Tail(perm), i, keys)

\* The indices 1..n of keys in ascending order of key, equal keys in index order.
RECURSIVE SortedIndices(_, _)
SortedIndices(keys, n) ==
    IF n = 0 THEN <<>>
    ELSE InsertStable(SortedIndices(keys, n - 1), n, keys)

\* sorted(s, key=...): a stable sort; keys[i] is the key of s[i].
SortedByKey(s, keys) ==
    LET perm == SortedIndices(keys, Len(s))
    IN  [i \in 1..Len(s) |-> s[perm[i]]]

\* sorted(s, key=..., reverse=True): descending, and equal keys still keep
\* their original order.
SortedByKeyReverse(s, keys) ==
    SortedByKey(s, [i \in 1..Len(s) |-> 0 - keys[i]])

\* datetime comparison raises TypeError between an offset-naive and an
\* offset-aware datetime; a sort of two or more keys that mixes them raises.
MixedAwareness(dts) == \E a, b \in dts : a.aware # b.aware

\* ------------------------------------------------------------- datetimes
DateTime(t, aware) == [t |-> t, aware |-> aware]

\* (a - b).total_seconds(), a float: the difference in ticks.
total_seconds(a, b) == a.t - b.t

\* int(x) of a float x: truncation toward zero, a whole number of seconds.
int(x) == IF x >= 0 THEN x \div TicksPerSec ELSE 0 - ((0 - x) \div TicksPerSec)

\* An int n and a float x are the same number.
SameNumber(n, x) == n * TicksPerSec = x

\* dt.isoformat(): the whole seconds, the fraction if any, the offset if aware.
isoformat(dt) ==
    [sec    |-> dt.t \div TicksPerSec,
     frac   |-> dt.t % TicksPerSec,
     offset |-> IF dt.aware THEN "+00:00" ELSE ""]

SecPerHour == 3600
SecPerMin  == 60

\* format_duration(seconds): "{h}h {m}m {s}s"
format_duration(seconds) ==
    LET sec == int(seconds)
        h   == sec \div SecPerHour
        rem == sec % SecPerHour
    IN  [h |-> h, m |-> rem \div SecPerMin, s |-> rem % SecPerMin]

\* ---------------------------------------------------------- analyze_file
\* A line of the export.  kind is "invalid" (json.loads raises JSONDecodeError),
\* "nonobject" (valid JSON that is no object: a number, a list, a string) or
\* "object".  record.get(k) of an object is None when the key is missing.  The
\* timestamp value is a string in pieces:
\*   form    "none" (no such key), "empty" (""), "garbage" (no ISO date) or "iso"
\*   quoted  the string is wrapped in '"' characters
\*   t       the instant it denotes, in ticks
\*   zone    "Z", "+00:00" or "" (no UTC designator and no offset)
TsString(form, quoted, t, zone) ==
    [form |-> form, quoted |-> quoted, t |-> t, zone |-> zone]

NoTs == TsString("none", FALSE, 0, "")

Line(kind, et, ts, guild_id, channel_id, channel, length, word_count) ==
    [kind |-> kind, event_type |-> et, timestamp |-> ts, guild_id |-> guild_id,
     channel_id |-> channel_id, channel |-> channel, length |-> length,
     word_count |-> word_count]

\* "not ts": a missing and an empty timestamp are both falsy.
TsFalsy(ts) == ts.form \in {"none", "empty"}

\* ts.strip('"')
strip_quotes(ts) == [ts EXCEPT !.quoted = FALSE]

\* .replace("Z", "+00:00")
replace_Z(ts) == [ts EXCEPT !.zone = IF @ = "Z" THEN "+00:00" ELSE @]

\* datetime.fromisoformat(s) raises ValueError on a string that is no ISO date.
FromIsoRaises(s) == s.form # "iso" \/ s.quoted

\* datetime.fromisoformat(s): aware exactly when the string carries an offset.
fromisoformat(s) == DateTime(s.t, s.zone # "")

\* line 79: the string handed to fromisoformat
Normalized(ts) == replace_Z(strip_quotes(ts))

\* record.get(key, 0)
GetOr0(v) == IF v = NoInt THEN 0 ELSE v

\* counters[et] += 1: a new key goes to the end of the Counter.
Increment(counters_, et) ==
    IF \E i \in 1..Len(counters_) : counters_[i][1] = et
    THEN [i \in 1..Len(counters_) |->
            IF counters_[i][1] = et
            THEN <<et, counters_[i][2] + 1>>
            ELSE counters_[i]]
    ELSE Append(counters_, <<et, 1>>)

\* The line gets past line 73: it is an object with a truthy event_type.
Typed(line) == line.kind = "object" /\ Truthy(line.event_type)

\* The line gets past line 78: it is typed and its timestamp is truthy.
Stamped(line) == Typed(line) /\ ~TsFalsy(line.timestamp)

\* The line raises AttributeError: record.get on a value that is no dict.
RaisesAttributeError(line) == line.kind = "nonobject"

\* The line raises ValueError: fromisoformat on a string it cannot parse.
RaisesValueError(line) ==
    Stamped(line) /\ FromIsoRaises(Normalized(line.timestamp))

LineRaises(line) == RaisesAttributeError(line) \/ RaisesValueError(line)

\* Where control is after the iteration on line: in the loop still, or out of
\* analyze_file and main with the exception, which nothing catches.
PcAfter(line) ==
    IF RaisesAttributeError(line) THEN "AttributeError"
    ELSE IF RaisesValueError(line) THEN "ValueError"
    ELSE "analyze"

\* The line gets past line 79 with a datetime.
Dated(line) == Stamped(line) /\ ~LineRaises(line)

\* The bug of counting before "if not et": every object is counted.
CountersAfterUnchecked(counters_, line) ==
    IF line.kind = "object" THEN Increment(counters_, line.event_type) ELSE counters_

\* The bug of counting after "if not ts": a record with no timestamp is not
\* counted.
CountersAfterStampedOnly(counters_, line) ==
    IF Stamped(line) THEN Increment(counters_, line.event_type) ELSE counters_

CountersAfter(counters_, line) ==
    IF Typed(line) THEN Increment(counters_, line.event_type) ELSE counters_

CallEventOf(line) ==
    <<line.event_type,
      fromisoformat(Normalized(line.timestamp)),
      Or(line.guild_id, line.channel_id)>>

CallEventsAfter(call_events_, line) ==
    IF Dated(line) /\ line.event_type \in CALL_START_EVENTS \cup CALL_END_EVENTS
    THEN Append(call_events_, CallEventOf(line))
    ELSE call_events_

MessageOf(line) ==
    [timestamp  |-> fromisoformat(Normalized(line.timestamp)),
     channel    |-> line.channel,
     length     |-> GetOr0(line.length),
     word_count |-> GetOr0(line.word_count)]

MessagesAfter(messages_, line) ==
    IF /\ Dated(line)
       /\ line.event_type \notin CALL_START_EVENTS \cup CALL_END_EVENTS
       /\ line.event_type = MESSAGE_EVENT
    THEN Append(messages_, MessageOf(line))
    ELSE messages_

\* One iteration of "for line in f".
AnalyzeLine(line) ==
    /\ pc = "analyze"
    /\ lines' = Append(lines, line)
    /\ counters' = CountersAfter(counters, line)
    /\ call_events' = CallEventsAfter(call_events, line)
    /\ messages' = MessagesAfter(messages, line)
    /\ pc' = PcAfter(line)
    /\ UNCHANGED <<data, pairVars, exportVars, topVars>>

MessageTs(messages_) == [i \in 1..Len(messages_) |-> messages_[i].timestamp]

\* The bug of a sort without reverse=True.
MessagesSortedAscending(messages_) ==
    SortedByKey(messages_, [i \in 1..Len(messages_) |-> messages_[i].timestamp.t])

\* sorted(messages, key=lambda x: x["timestamp"], reverse=True)
MessagesSorted(messages_) ==
    SortedByKeyReverse(messages_, [i \in 1..Len(messages_) |-> messages_[i].timestamp.t])

NoData == [event_counts |-> <<>>, call_events |-> <<>>, messages |-> <<>>]

\* The dict analyze_file returns.
Returned(counters_, call_events_, messages_) ==
    [event_counts |-> counters_,
     call_events  |-> call_events_,
     messages     |-> MessagesSorted(messages_)]

\* The file is exhausted: sort the messages, which can raise, and return.
AnalyzeReturn ==
    /\ pc = "analyze"
    /\ IF MixedAwareness(Range(MessageTs(messages)))
       THEN /\ pc' = "TypeError"
            /\ data' = data
       ELSE /\ pc' = "main_calls"
            /\ data' = Returned(counters, call_events, messages)
    /\ UNCHANGED <<lines, counters, call_events, messages, pairVars, exportVars, topVars>>

\* ------------------------------------------------------ pair_call_events
\* A call event is the tuple <<event_type, ts, context>>.
EventTs(events_) == [i \in 1..Len(events_) |-> events_[i][2]]

\* sorted(events, key=lambda x: x[1]) raises TypeError when it has to compare
\* a naive with an aware timestamp.
SortRaises(events_) == MixedAwareness(Range(EventTs(events_)))

\* The bug of iterating over the events in file order.
UnsortedEvents(events_) == events_

SortedEvents(events_) ==
    SortedByKey(events_, [i \in 1..Len(events_) |-> events_[i][2].t])

\* The session appended when an end event at ts pops <<start_ts, start_ctx>>.
Session(start_ts, start_ctx, ts) ==
    [start        |-> start_ts,
     end          |-> ts,
     server       |-> Or(start_ctx, "Unknown/DM"),
     duration_sec |-> total_seconds(ts, start_ts)]

\* The bug of an end event that reads the top of the stack and leaves it there.
StackAfterNoPop(stack_, ev) ==
    IF ev[1] \in CALL_START_EVENTS
    THEN Append(stack_, <<ev[2], ev[3]>>)
    ELSE stack_

\* The stack after one iteration of the loop on event ev.
StackAfter(stack_, ev) ==
    IF ev[1] \in CALL_START_EVENTS
    THEN Append(stack_, <<ev[2], ev[3]>>)
    ELSE IF ev[1] \in CALL_END_EVENTS /\ stack_ # <<>>
    THEN SubSeq(stack_, 1, Len(stack_) - 1)
    ELSE stack_

\* The bug of closing the oldest open start (FIFO) instead of the newest.
SessionsAfterFifo(sessions_, stack_, ev) ==
    IF ev[1] \notin CALL_START_EVENTS /\ ev[1] \in CALL_END_EVENTS /\ stack_ # <<>>
    THEN Append(sessions_, Session(stack_[1][1], stack_[1][2], ev[2]))
    ELSE sessions_

\* The sessions after one iteration of the loop on event ev.
SessionsAfter(sessions_, stack_, ev) ==
    IF ev[1] \notin CALL_START_EVENTS /\ ev[1] \in CALL_END_EVENTS /\ stack_ # <<>>
    THEN LET popped == stack_[Len(stack_)]
         IN  Append(sessions_, Session(popped[1], popped[2], ev[2]))
    ELSE sessions_

\* main calls pair_call_events(data["call_events"]); the function sets up its
\* stack and its session list and sorts the events, which can raise.
PairCall ==
    /\ pc = "main_calls"
    /\ events' = data.call_events
    /\ stack' = <<>>
    /\ sessions' = <<>>
    /\ seen' = <<>>
    /\ IF SortRaises(data.call_events)
       THEN /\ queue' = <<>>
            /\ pc' = "TypeError"
       ELSE /\ queue' = SortedEvents(data.call_events)
            /\ pc' = "pair_loop"
    /\ UNCHANGED <<analyzeVars, exportVars, topVars>>

\* One iteration of the for loop.
PairStep ==
    /\ pc = "pair_loop"
    /\ queue # <<>>
    /\ LET ev == Head(queue)
       IN  /\ stack' = StackAfter(stack, ev)
           /\ sessions' = SessionsAfter(sessions, stack, ev)
           /\ seen' = Append(seen, ev)
    /\ queue' = Tail(queue)
    /\ UNCHANGED <<pc, events, analyzeVars, exportVars, topVars>>

\* The loop is over: return sessions.  What is left on the stack is dropped.
PairReturn ==
    /\ pc = "pair_loop"
    /\ queue = <<>>
    /\ pc' = "main_sessions"
    /\ UNCHANGED <<pairVars, analyzeVars, exportVars, topVars>>

\* -------------------------------------------------- export_call_sessions
CsvRow(s) ==
    [server            |-> s.server,
     start             |-> isoformat(s.start),
     end               |-> isoformat(s.end),
     duration_readable |-> format_duration(s.duration_sec),
     duration_sec      |-> int(s.duration_sec)]

JsonObj(s) ==
    [server            |-> s.server,
     start             |-> isoformat(s.start),
     end               |-> isoformat(s.end),
     duration_readable |-> format_duration(s.duration_sec),
     duration_sec      |-> s.duration_sec]

CsvRows(ss) == [i \in 1..Len(ss) |-> CsvRow(ss[i])]

JsonObjs(ss) == [i \in 1..Len(ss) |-> JsonObj(ss[i])]

\* The bug of a sort without reverse=True.
SessionsSortedAscending(ss) ==
    SortedByKey(ss, [i \in 1..Len(ss) |-> ss[i].start.t])

\* sorted(sessions, key=lambda x: x["start"], reverse=True)
SessionsSorted(ss) ==
    SortedByKeyReverse(ss, [i \in 1..Len(ss) |-> ss[i].start.t])

\* main, "if sessions:": sort them newest first and export them.  (The totals
\* and the ranking of servers that main prints in between go to the console
\* only and are derived from sessions_sorted without changing it.)
MainExportCalls ==
    /\ pc = "main_sessions"
    /\ sessions # <<>>
    /\ sessions_sorted' = SessionsSorted(sessions)
    /\ csv_rows' = CsvRows(sessions_sorted')
    /\ json_objs' = JsonObjs(sessions_sorted')
    /\ pc' = "main_streams"
    /\ UNCHANGED <<pairVars, analyzeVars, topVars>>

\* main, "else": no call activity found, nothing is written.
MainNoCalls ==
    /\ pc = "main_sessions"
    /\ sessions = <<>>
    /\ pc' = "main_streams"
    /\ UNCHANGED <<pairVars, analyzeVars, exportVars, topVars>>

\* ------------------------------------------------- event type statistics
Min(a, b) == IF a < b THEN a ELSE b

\* The bug of sorting ascending and reversing the result, which reverses the
\* order of equal counts too.
most_common_reversed(counts) ==
    LET asc == SortedByKey(counts, [i \in 1..Len(counts) |-> counts[i][2]])
    IN  [i \in 1..Len(asc) |-> asc[Len(asc) + 1 - i]]

\* Counter.most_common(): sorted(items, key=count, reverse=True)
most_common_all(counts) ==
    SortedByKeyReverse(counts, [i \in 1..Len(counts) |-> counts[i][2]])

\* Counter.most_common(n): heapq.nlargest(n, items, key=count), which is
\* sorted(items, key=count, reverse=True)[:n]
most_common(counts, n) ==
    SubSeq(most_common_all(counts), 1, Min(n, Len(counts)))

TopN == 10

\* counts.get(et, 0)
CountOf(counts, et) ==
    IF \E i \in 1..Len(counts) : counts[i][1] = et
    THEN LET i == CHOOSE i \in 1..Len(counts) : counts[i][1] = et
         IN  counts[i][2]
    ELSE 0

\* m['timestamp'].strftime('%Y-%m-%d %H:%M:%S'): whole seconds, no offset.
strftime(dt) == dt.t \div TicksPerSec

\* export_messages_log: one line per message, in the order given.
MessagesLog(msgs) ==
    [i \in 1..Len(msgs) |->
        [ts         |-> strftime(msgs[i].timestamp),
         channel    |-> msgs[i].channel,
         length     |-> msgs[i].length,
         word_count |-> msgs[i].word_count]]

\* main, "2) Streams" and "3) Messages": the number of streams started is
\* printed and the message log is written if there are messages.
MainStreamsMessages ==
    /\ pc = "main_streams"
    /\ stream_count' = CountOf(data.event_counts, STREAM_START_EVENT)
    /\ messages_log' = MessagesLog(data.messages)
    /\ pc' = "main_events"
    /\ UNCHANGED <<top, counts_file, analyzeVars, pairVars, exportVars>>

\* main, "4) All Event Stats": the ten most frequent types are printed and
\* export_event_counts writes every type by descending count.
MainEventStats ==
    /\ pc = "main_events"
    /\ top' = most_common(data.event_counts, TopN)
    /\ counts_file' = most_common_all(data.event_counts)
    /\ pc' = "done"
    /\ UNCHANGED <<stream_count, messages_log, analyzeVars, pairVars, exportVars>>

\* ---------------------------------------------------------------- inputs
\* An object line with an ISO timestamp.
Stamp(t, zone) == TsString("iso", FALSE, t, zone)

\* Call events for SpecCalls.  Starts and ends at every instant with neither
\* guild_id nor channel_id; a start in guild "A"; an end in channel "B"; a start
\* whose timestamp has no "Z" and no offset.
CallLines ==
    {Line("object", et, Stamp(t, "Z"), None, None, None, NoInt, NoInt) :
        et \in {"join_call", "voice_disconnect"}, t \in 0..MaxTick}
    \cup
    {Line("object", "start_call", Stamp(0, "Z"), "A", "B", None, NoInt, NoInt),
     Line("object", "voice_disconnect", Stamp(MaxTick, "Z"), None, "B", None, NoInt, NoInt),
     Line("object", "voice_connection_success", Stamp(0, ""), None, None, None, NoInt, NoInt)}

\* Lines that are counted and nothing else: a type and no timestamp.
CountLines ==
    {Line("object", et, NoTs, None, None, None, NoInt, NoInt) :
        et \in {"join_call", MESSAGE_EVENT, STREAM_START_EVENT}}

\* Lines of every kind for SpecAnalyze: lines that are no JSON or no object,
\* objects with no or an empty event_type, and typed objects with no, an empty,
\* an unparseable, a quoted, a "Z", an offset and a naive timestamp.
AnyLines ==
    {Line("invalid", None, NoTs, None, None, None, NoInt, NoInt),
     Line("nonobject", None, NoTs, None, None, None, NoInt, NoInt),
     Line("object", None, Stamp(0, "Z"), None, None, None, NoInt, NoInt),
     Line("object", "", Stamp(0, "Z"), None, None, None, NoInt, NoInt)}
    \cup
    {Line("object", "join_call", ts, None, None, None, NoInt, NoInt) :
        ts \in {NoTs, Stamp(0, "Z"), TsString("iso", TRUE, MaxTick, "Z")}}
    \cup
    {Line("object", "voice_disconnect", ts, None, None, None, NoInt, NoInt) :
        ts \in {NoTs, TsString("empty", FALSE, 0, ""), Stamp(0, "Z")}}
    \cup
    {Line("object", MESSAGE_EVENT, ts, None, None, None, NoInt, NoInt) :
        ts \in {NoTs, TsString("garbage", FALSE, 0, ""), Stamp(0, "Z"), Stamp(0, "")}}
    \cup
    {Line("object", STREAM_START_EVENT, ts, None, None, None, NoInt, NoInt) :
        ts \in {NoTs, Stamp(0, "Z")}}
    \cup
    {Line("object", "start_call", Stamp(MaxTick, "Z"), "A", "B", None, NoInt, NoInt),
     Line("object", MESSAGE_EVENT, Stamp(MaxTick, "+00:00"), None, None, "general", 5, 1)}

\* -------------------------------------------------------- specifications
\* main has called analyze_file, which is about to read the first line.
Init ==
    /\ pc = "analyze"
    /\ lines = <<>>
    /\ counters = <<>>
    /\ call_events = <<>>
    /\ messages = <<>>
    /\ data = NoData
    /\ events = <<>>
    /\ queue = <<>>
    /\ stack = <<>>
    /\ sessions = <<>>
    /\ seen = <<>>
    /\ sessions_sorted = <<>>
    /\ csv_rows = <<>>
    /\ json_objs = <<>>
    /\ top = <<>>
    /\ counts_file = <<>>
    /\ stream_count = 0
    /\ messages_log = <<>>

\* analyze_file on every file of at most MaxLines lines of any kind.
ReadAnyLine == \E line \in AnyLines : Len(lines) < MaxLines /\ AnalyzeLine(line)

NextAnalyze ==
    \/ ReadAnyLine
    \/ AnalyzeReturn

SpecAnalyze == Init /\ [][NextAnalyze]_vars

\* main on every file of at most MaxCallLines call events, up to the export of
\* the call sessions.
ReadCallLine == \E line \in CallLines : Len(lines) < MaxCallLines /\ AnalyzeLine(line)

NextCalls ==
    \/ ReadCallLine
    \/ AnalyzeReturn
    \/ PairCall
    \/ PairStep
    \/ PairReturn
    \/ MainExportCalls
    \/ MainNoCalls

SpecCalls == Init /\ [][NextCalls]_vars

\* main on every file of at most MaxCountLines lines that have a type and no
\* timestamp, up to the event statistics.
ReadCountLine == \E line \in CountLines : Len(lines) < MaxCountLines /\ AnalyzeLine(line)

NextCounts ==
    \/ ReadCountLine
    \/ AnalyzeReturn
    \/ PairCall
    \/ PairReturn
    \/ MainNoCalls
    \/ MainStreamsMessages
    \/ MainEventStats

SpecCounts == Init /\ [][NextCounts]_vars

\* ================================================================ claims
\* The events the loop of pair_call_events goes through, in its order.
Scan == seen \o queue

NumStarts(evs) == Cardinality({i \in 1..Len(evs) : evs[i][1] \in CALL_START_EVENTS})

NumEnds(evs) == Cardinality({i \in 1..Len(evs) : evs[i][1] \in CALL_END_EVENTS})

\* The server of a session opened by a start with context ctx.
ServerOf(ctx) == IF ctx = None THEN "Unknown/DM" ELSE ctx

\* ------------------------------------------------------------------- C1
\* The scan goes through the events in ascending timestamp order.
C1_ScanAscending ==
    \A i, j \in 1..Len(Scan) : i < j => Scan[i][2].t <= Scan[j][2].t

\* A start is pushed on top of the stack; an end that finds the stack non-empty
\* takes the top of the stack off and appends one session, after the sessions
\* emitted before, with the start and the context of that top and its own
\* timestamp as the end, whatever its own context.
C1_Step ==
    (pc = "pair_loop" /\ queue # <<>>) =>
        LET ev == Head(queue)
            n  == Len(stack)
        IN  /\ ev[1] \in CALL_START_EVENTS =>
                /\ stack' = Append(stack, <<ev[2], ev[3]>>)
                /\ sessions' = sessions
            /\ (ev[1] \in CALL_END_EVENTS /\ n > 0) =>
                /\ stack' = SubSeq(stack, 1, n - 1)
                /\ Len(sessions') = Len(sessions) + 1
                /\ SubSeq(sessions', 1, Len(sessions)) = sessions
                /\ sessions'[Len(sessions')].start = stack[n][1]
                /\ sessions'[Len(sessions')].server = ServerOf(stack[n][2])
                /\ sessions'[Len(sessions')].end = ev[2]

\* Starts at t0 < t1 and ends at t2 < t3 give (t1, t2) and then (t0, t3).
C1_Example ==
    (/\ pc = "main_sessions"
     /\ Len(seen) = 4
     /\ seen[1][1] \in CALL_START_EVENTS /\ seen[2][1] \in CALL_START_EVENTS
     /\ seen[3][1] \in CALL_END_EVENTS /\ seen[4][1] \in CALL_END_EVENTS
     /\ seen[1][2].t < seen[2][2].t
     /\ seen[2][2].t < seen[3][2].t
     /\ seen[3][2].t < seen[4][2].t)
    => /\ Len(sessions) = 2
       /\ sessions[1].start = seen[2][2] /\ sessions[1].end = seen[3][2]
       /\ sessions[1].server = ServerOf(seen[2][3])
       /\ sessions[2].start = seen[1][2] /\ sessions[2].end = seen[4][2]
       /\ sessions[2].server = ServerOf(seen[1][3])

\* C1: pair_call_events scans the events in ascending timestamp order and
\* pairs every end that finds the stack non-empty with the most recently
\* pushed unmatched start (LIFO); the session has that start's timestamp and
\* context ("Unknown/DM" when absent) whatever the end's context; sessions
\* are emitted in the order of their ends; starts at t0 < t1 and ends at
\* t2 < t3 give (t1, t2) then (t0, t3).
C1_LifoPairing == [](C1_ScanAscending /\ C1_Example) /\ [][C1_Step]_vars

\* C1 witness: the example has run, the outer start in guild "A" was closed by
\* the end logged in channel "B".
C1_Witness ==
    /\ pc = "main_sessions"
    /\ Len(sessions) = 2
    /\ sessions[2].start.t < sessions[1].start.t
    /\ sessions[1].start.t < sessions[1].end.t
    /\ sessions[1].end.t < sessions[2].end.t
    /\ sessions[2].server = "A"
    /\ seen[4][3] = "B"
    /\ sessions[1].server = "Unknown/DM"

\* ------------------------------------------------------------------- C5
\* C5: pair_call_events never fails on any list of call events.
C5_NeverFails == ~(pc = "TypeError" /\ events # <<>>)

\* C5, the rest: an end that finds the stack empty leaves the stack and the
\* sessions alone, and the starts left on the stack at the end produce no
\* session; a lone end and a lone start give no session.
C5_DropStep ==
    (pc = "pair_loop" /\ queue # <<>> /\ Head(queue)[1] \in CALL_END_EVENTS /\ stack = <<>>)
    => (stack' = stack /\ sessions' = sessions)

C5_Return ==
    /\ (pc = "pair_loop" /\ queue = <<>>) => (sessions' = sessions)
    /\ (pc = "main_sessions" /\ Len(events) = 1) => sessions = <<>>

C5_UnmatchedDropped == [][C5_DropStep /\ C5_Return]_vars

\* ------------------------------------------------------------------- C6
\* C6: in every session emitted, on any input in any file order, end is not
\* earlier than start, duration_sec is end minus start and is not negative,
\* and a start and an end at the same timestamp give duration_sec = 0.
C6_DurationNonNegative ==
    \A i \in 1..Len(sessions) :
        /\ sessions[i].start.t <= sessions[i].end.t
        /\ sessions[i].duration_sec = sessions[i].end.t - sessions[i].start.t
        /\ sessions[i].duration_sec >= 0
        /\ sessions[i].start.t = sessions[i].end.t => sessions[i].duration_sec = 0

\* C6 witness: a file whose call events are not in time order has given a
\* session of duration zero.
C6_Witness ==
    /\ pc = "main_sessions"
    /\ \E i, j \in 1..Len(events) : i < j /\ events[i][2].t > events[j][2].t
    /\ \E i \in 1..Len(sessions) :
        sessions[i].start = sessions[i].end /\ sessions[i].duration_sec = 0

\* ------------------------------------------------------------------ C10
\* C10: at every step of the scan the starts processed are the sessions
\* emitted plus the stack, the sessions emitted are at most the ends
\* processed, and the final number of sessions is at most the smaller of the
\* numbers of starts and of ends.
C10_Counting ==
    /\ NumStarts(seen) = Len(sessions) + Len(stack)
    /\ Len(sessions) <= NumEnds(seen)
    /\ pc = "main_sessions" =>
        /\ Len(sessions) <= NumStarts(events)
        /\ Len(sessions) <= NumEnds(events)

\* C10 witness: mid-scan, with a session emitted, a start still open and an
\* end that was dropped.
C10_Witness ==
    /\ pc = "pair_loop"
    /\ sessions # <<>>
    /\ stack # <<>>
    /\ NumEnds(seen) > Len(sessions)

\* ------------------------------------------------------------------- C7
\* The instant an ISO string denotes, in ticks.
IsoTicks(iso) == iso.sec * TicksPerSec + iso.frac

\* Row i of the CSV and object i of the JSON are the same session.
C7_SameSession(i) ==
    /\ csv_rows[i].server = json_objs[i].server
    /\ csv_rows[i].start = json_objs[i].start
    /\ csv_rows[i].end = json_objs[i].end
    /\ csv_rows[i].server = sessions_sorted[i].server
    /\ IsoTicks(csv_rows[i].start) = sessions_sorted[i].start.t
    /\ IsoTicks(csv_rows[i].end) = sessions_sorted[i].end.t

C7_SameOrder ==
    /\ Len(csv_rows) = Len(json_objs)
    /\ Len(csv_rows) = Len(sessions_sorted)
    /\ pc = "main_streams" => Len(csv_rows) = Len(sessions)
    /\ \A i, j \in 1..Len(csv_rows) :
        i < j => IsoTicks(csv_rows[i].start) >= IsoTicks(csv_rows[j].start)

\* C7 as stated: the CSV and the JSON hold the same records in the same order,
\* start descending, with identical server, start, end and duration_sec.
C7_IdenticalValues ==
    /\ C7_SameOrder
    /\ \A i \in 1..Len(csv_rows) :
        /\ C7_SameSession(i)
        /\ SameNumber(csv_rows[i].duration_sec, json_objs[i].duration_sec)

\* C7 amended: the same records in the same order with identical server, start
\* and end; the CSV's duration_sec is the JSON's cut to whole seconds, so the
\* two are equal exactly when the duration is a whole number of seconds.
C7_CsvTruncates ==
    /\ C7_SameOrder
    /\ \A i \in 1..Len(csv_rows) :
        /\ C7_SameSession(i)
        /\ json_objs[i].duration_sec = sessions_sorted[i].duration_sec
        /\ csv_rows[i].duration_sec * TicksPerSec <= json_objs[i].duration_sec
        /\ json_objs[i].duration_sec < (csv_rows[i].duration_sec + 1) * TicksPerSec

\* C7 witness: two sessions exported, emitted oldest start first, one with a
\* whole and one with a fractional number of seconds.
C7_Witness ==
    /\ pc = "main_streams"
    /\ Len(csv_rows) = 2
    /\ sessions[1].start.t < sessions[2].start.t
    /\ json_objs[1].duration_sec % TicksPerSec # 0
    /\ json_objs[2].duration_sec % TicksPerSec = 0
    /\ json_objs[2].duration_sec > 0

\* ---------------------------------------------------------- analyze_file
\* A record "has" a field when the field is there with a value: a missing, a
\* null and an empty event_type or timestamp all count as absent.
HasEventType(l) == l.kind = "object" /\ l.event_type # None /\ l.event_type # ""

HasTimestamp(l) == l.timestamp.form # "none" /\ l.timestamp.form # "empty"

Last(s) == s[Len(s)]

\* A step of the loop of analyze_file reads a line, which is LineRead.
Reads == pc = "analyze" /\ Len(lines') = Len(lines) + 1

LineRead == lines'[Len(lines')]

\* ------------------------------------------------------------------- C2
\* The per-record errors the claim lists.
C2_PerRecordError(l) ==
    \/ l.kind = "invalid"
    \/ l.kind = "object" /\ ~HasEventType(l)
    \/ HasEventType(l) /\ ~HasTimestamp(l)
    \/ HasEventType(l) /\ l.timestamp.form = "garbage"

\* C2: a line that is no valid JSON, a record with no event_type, a record
\* with no timestamp and a record whose timestamp cannot be parsed are all
\* absorbed at that record: no such line aborts the run.
C2_PerRecordErrorsAbsorbed ==
    (lines # <<>> /\ C2_PerRecordError(Last(lines)))
    => pc \notin {"ValueError", "AttributeError"}

\* C2, the part that holds: the first three kinds of error are absorbed, and
\* the pass goes on.
C2_SkipsAbsorbed ==
    [][(Reads /\ C2_PerRecordError(LineRead) /\ LineRead.timestamp.form # "garbage")
        => pc' = "analyze"]_vars

\* ------------------------------------------------------------------- C3
C3_LinesOfType(et) ==
    Cardinality({i \in 1..Len(lines) : HasEventType(lines[i]) /\ lines[i].event_type = et})

C3_Sum ==
    /\ SeqSum([i \in 1..Len(counters) |-> counters[i][2]])
        = Cardinality({i \in 1..Len(lines) : HasEventType(lines[i])})
    /\ \A i \in 1..Len(counters) : counters[i][2] = C3_LinesOfType(counters[i][1])
    /\ \A i, j \in 1..Len(counters) : counters[i][1] = counters[j][1] => i = j

C3_Types == {l.event_type : l \in AnyLines}

C3_Step ==
    /\ \A et \in C3_Types : CountOf(counters', et) >= CountOf(counters, et)
    /\ Reads =>
        IF HasEventType(LineRead)
        THEN \A et \in C3_Types :
                CountOf(counters', et) =
                    CountOf(counters, et) + (IF et = LineRead.event_type THEN 1 ELSE 0)
        ELSE counters' = counters
    /\ ~Reads => counters' = counters

\* C3: after any prefix of the lines, the counts of event_counts add up to the
\* number of lines of the prefix that are a JSON object with an event_type;
\* each such line raises one counter by one, every other line leaves the
\* counters alone, and no counter ever decreases.
C3_CountsMatchLines == []C3_Sum /\ [][C3_Step]_vars

\* C3 witness: four lines read, two of one type, one that is no JSON and one
\* object with an empty event_type.
C3_Witness ==
    /\ Len(lines) = 4
    /\ \E i \in 1..Len(counters) : counters[i][2] = 2
    /\ \E i \in 1..4 : lines[i].kind = "invalid"
    /\ \E i \in 1..4 : lines[i].kind = "object" /\ lines[i].event_type = ""

\* ------------------------------------------------------------------- C4
\* What a step that reads a record with an event_type and no timestamp does.
C4_Step ==
    (Reads /\ HasEventType(LineRead) /\ ~HasTimestamp(LineRead)) =>
        /\ \A et \in C3_Types :
            CountOf(counters', et) =
                CountOf(counters, et) + (IF et = LineRead.event_type THEN 1 ELSE 0)
        /\ call_events' = call_events
        /\ messages' = messages
        /\ pc' = pc
        /\ UNCHANGED <<data, pairVars, exportVars, topVars>>

\* C4: a record with an event_type and no timestamp raises the counter of its
\* type by one and changes nothing else: call_events and messages stay as
\* they are, also for a call-start, a call-end and a send_message record.
C4_CountedOnly == [][C4_Step]_vars

\* C4 witness: a call-start, a call-end and a send_message record without a
\* timestamp have been read and counted, and nothing was collected.
C4_Witness ==
    /\ pc = "analyze"
    /\ Len(lines) = 3
    /\ \A i \in 1..3 : HasEventType(lines[i]) /\ ~HasTimestamp(lines[i])
    /\ {lines[i].event_type : i \in 1..3} = {"join_call", "voice_disconnect", MESSAGE_EVENT}
    /\ Len(counters) = 3
    /\ call_events = <<>>
    /\ messages = <<>>

\* ------------------------------------------------------------------- C9
C9_IsCall(l) ==
    /\ HasEventType(l)
    /\ HasTimestamp(l)
    /\ l.event_type \in CALL_START_EVENTS \cup CALL_END_EVENTS

C9_IsMessage(l) == HasEventType(l) /\ HasTimestamp(l) /\ l.event_type = MESSAGE_EVENT

C9_Instant(l) == [t |-> l.timestamp.t, aware |-> l.timestamp.zone # ""]

\* The call records of the lines ls, in the order of the lines.
RECURSIVE C9_CallRecords(_)
C9_CallRecords(ls) ==
    IF ls = <<>> THEN <<>>
    ELSE LET l == Head(ls)
         IN  (IF C9_IsCall(l)
              THEN <<  <<l.event_type, C9_Instant(l),
                         IF l.guild_id # None THEN l.guild_id ELSE l.channel_id>>  >>
              ELSE <<>>) \o C9_CallRecords(Tail(ls))

C9_MessageRecord(l) ==
    [timestamp  |-> C9_Instant(l),
     channel    |-> l.channel,
     length     |-> IF l.length = NoInt THEN 0 ELSE l.length,
     word_count |-> IF l.word_count = NoInt THEN 0 ELSE l.word_count]

C9_Occurrences(s, x) == Cardinality({i \in 1..Len(s) : s[i] = x})

\* C9: analyze_file returns in messages exactly the send_message records that
\* have a timestamp, newest first, and in call_events exactly the call-start
\* and call-end records that have a timestamp, in the order of their lines.
C9_ReturnedLists ==
    pc = "main_calls" =>
        /\ data.call_events = C9_CallRecords(lines)
        /\ Len(data.messages) = Cardinality({i \in 1..Len(lines) : C9_IsMessage(lines[i])})
        /\ \A i \in 1..Len(lines) : C9_IsMessage(lines[i]) =>
            C9_Occurrences(data.messages, C9_MessageRecord(lines[i]))
                = Cardinality({j \in 1..Len(lines) :
                    /\ C9_IsMessage(lines[j])
                    /\ C9_MessageRecord(lines[j]) = C9_MessageRecord(lines[i])})
        /\ \A i, j \in 1..Len(data.messages) :
            i < j => data.messages[i].timestamp.t >= data.messages[j].timestamp.t

\* C9 witness: returned on a file whose two messages are oldest first and
\* whose two call events are newest first.
C9_Witness ==
    /\ pc = "main_calls"
    /\ Len(messages) = 2
    /\ messages[1].timestamp.t < messages[2].timestamp.t
    /\ data.messages[1] = messages[2]
    /\ Len(data.call_events) = 2
    /\ data.call_events[1][2].t > data.call_events[2][2].t

\* ------------------------------------------------------------------- C8
\* The number of the first line of the input with event type et.
C8_FirstSeen(et) ==
    CHOOSE i \in 1..Len(lines) :
        /\ HasEventType(lines[i]) /\ lines[i].event_type = et
        /\ \A j \in 1..(i - 1) : ~(HasEventType(lines[j]) /\ lines[j].event_type = et)

\* result is the n entries of counts with the largest counts, by descending
\* count, equal counts in the order their types were first met in the input.
C8_IsTop(result, counts, n) ==
    /\ Len(result) = Min(n, Len(counts))
    /\ \A i \in 1..Len(result) : result[i] \in Range(counts)
    /\ \A i, j \in 1..Len(result) : i < j =>
        \/ result[i][2] > result[j][2]
        \/ /\ result[i][2] = result[j][2]
           /\ C8_FirstSeen(result[i][1]) < C8_FirstSeen(result[j][1])
    /\ \A e \in Range(counts) \ Range(result) :
        \A i \in 1..Len(result) : e[2] <= result[i][2]

\* C8: the top-N event types are the N entries of event_counts with the
\* largest counts in descending order of count, entries with equal counts in
\* the order their types were first encountered in the input.
C8_TopN ==
    /\ \A n \in 0..(Len(counters) + 1) : C8_IsTop(most_common(counters, n), counters, n)
    /\ pc = "done" =>
        /\ C8_IsTop(top, data.event_counts, TopN)
        /\ C8_IsTop(counts_file, data.event_counts, Len(data.event_counts))

\* C8 witness: three types, the first one met counted once and the two others
\* twice; the top two are the two others in the order they were met, and the
\* first one met comes last in the statistics.
C8_Witness ==
    /\ pc = "done"
    /\ Len(data.event_counts) = 3
    /\ data.event_counts[1][2] = 1
    /\ data.event_counts[2][2] = 2
    /\ data.event_counts[3][2] = 2
    /\ most_common(data.event_counts, 2) = <<data.event_counts[2], data.event_counts[3]>>
    /\ top = <<data.event_counts[2], data.event_counts[3], data.event_counts[1]>>
    /\ counts_file = top
====
